---------------------------- MODULE Spec2Model ----------------------------
(***************************************************************************)
(* A model of src/main.py: the /api/voice_chat handler (speech-to-text,    *)
(* interruption filter, reply generation, speech synthesis) and the        *)
(* process-wide session_context dictionary it reads and writes.            *)
(*                                                                         *)
(* Text is a sequence of one-character strings.  The three hosted services *)
(* are nondeterministic: each call either raises or returns a value.       *)
(***************************************************************************)
EXTENDS Integers, Sequences, FiniteSets, TLC

(***************************************************************************)
(* Characters and the str methods the handler uses.                        *)
(***************************************************************************)

\* The characters texts are built from: two lower-case letters, one
\* upper-case letter and one whitespace character.
Alphabet == {"a", "b", "A", " "}

\* ch.isspace()
IsSpace(ch) == ch = " "

\* The per-character part of str.lower().
LowerChar(ch) ==
    CASE ch = "A" -> "a"
      [] ch = "T" -> "t"
      [] OTHER -> ch

\* s.lower()
Lower(s) == [i \in 1..Len(s) |-> LowerChar(s[i])]

\* s.strip(): leading and trailing whitespace removed.
RECURSIVE LStrip(_)
LStrip(s) == IF s # <<>> /\ IsSpace(Head(s)) THEN LStrip(Tail(s)) ELSE s

RECURSIVE RStrip(_)
RStrip(s) ==
    IF s # <<>> /\ IsSpace(s[Len(s)]) THEN RStrip(SubSeq(s, 1, Len(s) - 1)) ELSE s

Strip(s) == RStrip(LStrip(s))

\* "".join(ch for ch in s if not ch.isspace())
RECURSIVE DropSpaces(_)
DropSpaces(s) ==
    IF s = <<>> THEN <<>>
    ELSE IF IsSpace(Head(s)) THEN DropSpaces(Tail(s))
    ELSE <<Head(s)>> \o DropSpaces(Tail(s))

\* _normalize_text(s): lower-case, then delete every whitespace character.
normalize_text(s) == DropSpaces(Lower(s))

\* a in b, for strings: a occurs in b as a contiguous run.
IsSubstring(a, b) ==
    \E i \in 0..(Len(b) - Len(a)) : SubSeq(b, i + 1, i + Len(a)) = a

Min(a, b) == IF a <= b THEN a ELSE b
Max(a, b) == IF a >= b THEN a ELSE b


(***************************************************************************)
(* Values.                                                                 *)
(***************************************************************************)

\* Python's None, and a local that is not assigned yet.
None == <<"None">>

\* The empty str.
EmptyText == <<>>

\* The two requests that may overlap.
Reqs == {"A", "B"}

\* Values of the session_id form field; "" is the default.
SessionIds == {"", "s1", "s2"}

\* The session ids under which a reply can be stored.
NamedSessions == SessionIds \ {""}

\* Values of the is_interruption form field.
FlagValues == {<<"t", "r", "u", "e">>, <<"T", "r", "u", "e">>,
               <<"f", "a", "l", "s", "e">>}

\* Transcripts the transcription service returns in the handler model:
\* " a ", "A ba", "bab", "abab".
UserTexts == {<<" ", "a", " ">>, <<"A", " ", "b", "a">>, <<"b", "a", "b">>,
              <<"a", "b", "a", "b">>}

\* Replies the chat service returns in the handler model:
\* "", "aba", "abab".
ReplyTexts == {EmptyText, <<"a", "b", "a">>, <<"a", "b", "a", "b">>}

\* WAV files the speech service returns; a WAV file is never empty.
WavOutputs == {<<"w", "w">>}

\* base64.b64encode(b).decode(): four characters per three bytes, padded.
B64Encode(bytes) == [i \in 1..(4 * ((Len(bytes) + 2) \div 3)) |-> "x"]

\* The shortest stripped transcript an interruption is answered for.
MinUtteranceLen == 3

\* The length ratio 0.7 as RatioNum / RatioDen.  For string lengths the
\* float test min / max > 0.7 and the integer test
\* RatioDen * min > RatioNum * max agree.
RatioNum == 7
RatioDen == 10

(***************************************************************************)
(* State.                                                                  *)
(***************************************************************************)
VARIABLES
    session_context,  \* the module-level dict: session_id -> last reply text
    pc,               \* per request: where its handler is
    is_interruption,  \* per request: the form field
    session_id,       \* per request: the form field
    user_text,        \* per request: the transcript, None before it exists
    assistant_text,   \* per request: the reply, None before it exists
    response,         \* per request: what the caller gets, NoResponse before
    calls,            \* per request: how often each service was invoked
    ctx_before,       \* per request: session_context when its pipeline began
    prev_read,        \* per request: prev_assistant read by the echo check
    embedded_prev,    \* per request: the reply put into system_content
    last_generated,   \* per session_id: the latest reply generated for it
    last_delivered,   \* per session_id: the latest reply returned to a caller
    last_finished     \* per session_id: the latest generated reply whose turn
                      \* ended, and whether it was returned to the caller

vars == <<session_context, pc, is_interruption, session_id, user_text,
          assistant_text, response, calls, ctx_before, prev_read,
          embedded_prev, last_generated, last_delivered, last_finished>>

NoResponse == [status |-> 0, detail |-> "", user_text |-> None,
               assistant_text |-> None, audio_base64 |-> None]

\* The dict a successful return of voice_chat carries.
OkResponse(u, a, b64) ==
    [status |-> 200, detail |-> "", user_text |-> u,
     assistant_text |-> a, audio_base64 |-> b64]

\* raise HTTPException(status_code=code, detail=msg): no field is returned.
ErrorResponse(code, msg) ==
    [status |-> code, detail |-> msg, user_text |-> None,
     assistant_text |-> None, audio_base64 |-> None]

\* FilteredResponse with the stripped transcript.
FilteredResponseTrimmed(u) == OkResponse(Strip(u), <<>>, <<>>)

\* The early return of the interruption filter.
FilteredResponse(u) == OkResponse(u, EmptyText, EmptyText)

NoCalls == [stt |-> 0, llm |-> 0, tts |-> 0]

\* Marks ctx_before of a request whose pipeline has not begun.
NoSnapshot == [k \in {"-"} |-> None]

NoFinished == [text |-> None, delivered |-> FALSE]

(***************************************************************************)
(* The session store and the interruption filter.                          *)
(***************************************************************************)

\* session_id and session_id in session_context
CtxHas(ctx, sid) == sid # "" /\ sid \in DOMAIN ctx

\* CtxPut without its test of session_id.
CtxPutAnyKey(ctx, sid, text) ==
    [k \in DOMAIN ctx \cup {sid} |-> IF k = sid THEN text ELSE ctx[k]]

\* CtxPut that keeps the first reply of a session.
CtxPutIfAbsent(ctx, sid, text) ==
    IF sid # "" /\ sid \notin DOMAIN ctx
    THEN [k \in DOMAIN ctx \cup {sid} |-> IF k = sid THEN text ELSE ctx[k]]
    ELSE ctx

\* CtxPut that stores nothing.
CtxPutNever(ctx, sid, text) == ctx

\* if session_id: session_context[session_id] = assistant_text
CtxPut(ctx, sid, text) ==
    IF sid # ""
    THEN [k \in DOMAIN ctx \cup {sid} |-> IF k = sid THEN text ELSE ctx[k]]
    ELSE ctx

\* IsInterrupt as the truth value of the form field.
FlagTruthy(flag) == flag # <<>>

\* is_interruption.lower() == "true"
IsInterrupt(flag) == Lower(flag) = <<"t", "r", "u", "e">>

\* TooShort without its length test.
TooShortOnlyEmpty(stripped) == stripped = EmptyText

\* not user_text_stripped or len(user_text_stripped) < 3
TooShort(stripped) == stripped = EmptyText \/ Len(stripped) < MinUtteranceLen

\* RatioExceeds with >= for >.
RatioAtLeast(prev_norm, user_norm) ==
    RatioDen * Min(Len(prev_norm), Len(user_norm))
        >= RatioNum * Max(Len(prev_norm), Len(user_norm))

\* len_ratio > 0.7
RatioExceeds(prev_norm, user_norm) ==
    RatioDen * Min(Len(prev_norm), Len(user_norm))
        > RatioNum * Max(Len(prev_norm), Len(user_norm))

\* EitherContains without its second test.
UserInPrevOnly(prev_norm, user_norm) == IsSubstring(user_norm, prev_norm)

\* user_norm in prev_norm or prev_norm in user_norm
EitherContains(prev_norm, user_norm) ==
    IsSubstring(user_norm, prev_norm) \/ IsSubstring(prev_norm, user_norm)

\* The echo rule on the two normalized strings.
EchoRule(prev_norm, user_norm) ==
    /\ prev_norm # EmptyText
    /\ user_norm # EmptyText
    /\ RatioExceeds(prev_norm, user_norm)
    /\ EitherContains(prev_norm, user_norm)

\* The filter's decision for one turn: "too_short", "echo" or "accept".
InterruptFilter(text, flag, sid, ctx) ==
    IF ~IsInterrupt(flag) THEN "accept"
    ELSE IF TooShort(Strip(text)) THEN "too_short"
    ELSE IF CtxHas(ctx, sid)
            /\ EchoRule(normalize_text(ctx[sid]), normalize_text(Strip(text)))
         THEN "echo"
    ELSE "accept"


(***************************************************************************)
(* The handler.  voice_chat is a coroutine on the server's event loop; its *)
(* only await is the read of the upload.  The three service calls go       *)
(* through the synchronous client, so from the transcription call to the   *)
(* return the coroutine does not yield and no other handler runs.  A       *)
(* handler at "done" has returned and its response is being handed to the  *)
(* caller; the next handler runs once that is over.                        *)
(***************************************************************************)

\* Where a handler is while it occupies the event loop.
InPipeline == {"stt", "filter", "llm", "tts", "done"}

\* LoopFree for a handler that yields at every service call.
LoopAlwaysFree == TRUE

\* No handler is between its transcription call and its response.
LoopFree == \A q \in Reqs : pc[q] \notin InPipeline

\* The dict after construction: empty.
EmptyContext == [k \in {} |-> EmptyText]

Init ==
    /\ session_context = EmptyContext
    /\ pc = [r \in Reqs |-> "idle"]
    /\ is_interruption = [r \in Reqs |-> None]
    /\ session_id = [r \in Reqs |-> ""]
    /\ user_text = [r \in Reqs |-> None]
    /\ assistant_text = [r \in Reqs |-> None]
    /\ response = [r \in Reqs |-> NoResponse]
    /\ calls = [r \in Reqs |-> NoCalls]
    /\ ctx_before = [r \in Reqs |-> NoSnapshot]
    /\ prev_read = [r \in Reqs |-> None]
    /\ embedded_prev = [r \in Reqs |-> None]
    /\ last_generated = [s \in NamedSessions |-> None]
    /\ last_delivered = [s \in NamedSessions |-> None]
    /\ last_finished = [s \in NamedSessions |-> NoFinished]

\* The handler ends with resp; the turn's reply, if one was generated, is
\* recorded as finished.
Finish(r, resp) ==
    /\ pc' = [pc EXCEPT ![r] = "done"]
    /\ response' = [response EXCEPT ![r] = resp]
    /\ last_delivered' =
         IF /\ session_id[r] # ""
            /\ resp.status = 200
            /\ resp.audio_base64 # EmptyText
         THEN [last_delivered EXCEPT ![session_id[r]] = resp.assistant_text]
         ELSE last_delivered
    /\ last_finished' =
         IF session_id[r] # "" /\ assistant_text[r] # None
         THEN [last_finished EXCEPT ![session_id[r]] =
                 [text |-> assistant_text[r], delivered |-> resp.status = 200]]
         ELSE last_finished

\* A request arrives: the form fields are bound and the handler awaits
\* file.read().
Receive(r) ==
    /\ pc[r] = "idle"
    /\ LoopFree
    /\ \E flag \in FlagValues, sid \in SessionIds :
         /\ is_interruption' = [is_interruption EXCEPT ![r] = flag]
         /\ session_id' = [session_id EXCEPT ![r] = sid]
    /\ pc' = [pc EXCEPT ![r] = "await_read"]
    /\ UNCHANGED <<session_context, user_text, assistant_text, response, calls,
                   ctx_before, prev_read, embedded_prev, last_generated,
                   last_delivered, last_finished>>

\* file.read() returns no bytes: 400.
ReadEmpty(r) ==
    /\ pc[r] = "await_read"
    /\ LoopFree
    /\ Finish(r, ErrorResponse(400, "Empty audio file"))
    /\ UNCHANGED <<session_context, is_interruption, session_id, user_text,
                   assistant_text, calls, ctx_before, prev_read, embedded_prev,
                   last_generated>>

\* file.read() returns the audio: the handler goes on to the transcription
\* call and keeps the event loop from here to its return.
ReadAudio(r) ==
    /\ pc[r] = "await_read"
    /\ LoopFree
    /\ pc' = [pc EXCEPT ![r] = "stt"]
    /\ ctx_before' = [ctx_before EXCEPT ![r] = session_context]
    /\ UNCHANGED <<session_context, is_interruption, session_id, user_text,
                   assistant_text, response, calls, prev_read, embedded_prev,
                   last_generated, last_delivered, last_finished>>

\* client.audio.transcriptions.create raises.
SttFails(r) ==
    /\ pc[r] = "stt"
    /\ calls' = [calls EXCEPT ![r].stt = @ + 1]
    /\ Finish(r, ErrorResponse(500, "STT failed"))
    /\ UNCHANGED <<session_context, is_interruption, session_id, user_text,
                   assistant_text, ctx_before, prev_read, embedded_prev,
                   last_generated>>

\* SttNoText without the test of user_text.
SttNoTextGoesOn(r) ==
    /\ pc[r] = "stt"
    /\ calls' = [calls EXCEPT ![r].stt = @ + 1]
    /\ \E t \in {None, <<>>} :
         user_text' = [user_text EXCEPT ![r] = t]
    /\ pc' = [pc EXCEPT ![r] = "filter"]
    /\ UNCHANGED <<session_context, is_interruption, session_id,
                   assistant_text, response, ctx_before, prev_read,
                   embedded_prev, last_generated, last_delivered,
                   last_finished>>

\* The transcription has no text, or an empty one.
SttNoText(r) ==
    /\ pc[r] = "stt"
    /\ calls' = [calls EXCEPT ![r].stt = @ + 1]
    /\ \E t \in {None, EmptyText} :
         user_text' = [user_text EXCEPT ![r] = t]
    /\ Finish(r, ErrorResponse(500, "STT result has no text"))
    /\ UNCHANGED <<session_context, is_interruption, session_id,
                   assistant_text, ctx_before, prev_read, embedded_prev,
                   last_generated>>

\* The transcription returns text t.
SttText(r, t) ==
    /\ pc[r] = "stt"
    /\ t # EmptyText
    /\ calls' = [calls EXCEPT ![r].stt = @ + 1]
    /\ user_text' = [user_text EXCEPT ![r] = t]
    /\ pc' = [pc EXCEPT ![r] = "filter"]
    /\ UNCHANGED <<session_context, is_interruption, session_id,
                   assistant_text, response, ctx_before, prev_read,
                   embedded_prev, last_generated, last_delivered,
                   last_finished>>

\* What the echo check reads: prev_assistant, when the check is reached.
EchoRead(text, flag, sid, ctx) ==
    IF IsInterrupt(flag) /\ ~TooShort(Strip(text)) /\ CtxHas(ctx, sid)
    THEN ctx[sid] ELSE None

\* The interruption filter: a rejected turn returns at once.
FilterRejects(r) ==
    /\ pc[r] = "filter"
    /\ InterruptFilter(user_text[r], is_interruption[r], session_id[r],
                       session_context) \in {"too_short", "echo"}
    /\ prev_read' = [prev_read EXCEPT ![r] =
         EchoRead(user_text[r], is_interruption[r], session_id[r],
                  session_context)]
    /\ Finish(r, FilteredResponse(user_text[r]))
    /\ UNCHANGED <<session_context, is_interruption, session_id, user_text,
                   assistant_text, calls, ctx_before, embedded_prev,
                   last_generated>>

\* The interruption filter: an accepted turn goes on to reply generation.
FilterAccepts(r) ==
    /\ pc[r] = "filter"
    /\ InterruptFilter(user_text[r], is_interruption[r], session_id[r],
                       session_context) = "accept"
    /\ prev_read' = [prev_read EXCEPT ![r] =
         EchoRead(user_text[r], is_interruption[r], session_id[r],
                  session_context)]
    /\ pc' = [pc EXCEPT ![r] = "llm"]
    /\ UNCHANGED <<session_context, is_interruption, session_id, user_text,
                   assistant_text, response, calls, ctx_before, embedded_prev,
                   last_generated, last_delivered, last_finished>>

\* The previous reply appended to system_content, None when there is none.
PromptPrev(flag, sid, ctx) ==
    IF IsInterrupt(flag) /\ CtxHas(ctx, sid) THEN ctx[sid] ELSE None

\* client.chat.completions.create raises, or the completion has no choice.
LlmFails(r) ==
    /\ pc[r] = "llm"
    /\ calls' = [calls EXCEPT ![r].llm = @ + 1]
    /\ embedded_prev' = [embedded_prev EXCEPT ![r] =
         PromptPrev(is_interruption[r], session_id[r], session_context)]
    /\ Finish(r, ErrorResponse(500, "LLM failed"))
    /\ UNCHANGED <<session_context, is_interruption, session_id, user_text,
                   assistant_text, ctx_before, prev_read, last_generated>>

\* The chat service returns reply a, which is stored for the session.
LlmReplies(r, a) ==
    /\ pc[r] = "llm"
    /\ calls' = [calls EXCEPT ![r].llm = @ + 1]
    /\ embedded_prev' = [embedded_prev EXCEPT ![r] =
         PromptPrev(is_interruption[r], session_id[r], session_context)]
    /\ assistant_text' = [assistant_text EXCEPT ![r] = a]
    /\ session_context' = CtxPut(session_context, session_id[r], a)
    /\ last_generated' =
         IF session_id[r] # ""
         THEN [last_generated EXCEPT ![session_id[r]] = a]
         ELSE last_generated
    /\ pc' = [pc EXCEPT ![r] = "tts"]
    /\ UNCHANGED <<is_interruption, session_id, user_text, response,
                   ctx_before, prev_read, last_delivered, last_finished>>

\* client.audio.speech.create, or the handling of its file, raises.
TtsFails(r) ==
    /\ pc[r] = "tts"
    /\ calls' = [calls EXCEPT ![r].tts = @ + 1]
    /\ Finish(r, ErrorResponse(500, "TTS failed"))
    /\ UNCHANGED <<session_context, is_interruption, session_id, user_text,
                   assistant_text, ctx_before, prev_read, embedded_prev,
                   last_generated>>

\* The speech service returns a WAV file: the turn succeeds.
TtsSpeaks(r, wav) ==
    /\ pc[r] = "tts"
    /\ calls' = [calls EXCEPT ![r].tts = @ + 1]
    /\ Finish(r, OkResponse(user_text[r], assistant_text[r], B64Encode(wav)))
    /\ UNCHANGED <<session_context, is_interruption, session_id, user_text,
                   assistant_text, ctx_before, prev_read, embedded_prev,
                   last_generated>>

\* The response has gone to the caller; the slot takes the next request.
Respond(r) ==
    /\ pc[r] = "done"
    /\ pc' = [pc EXCEPT ![r] = "idle"]
    /\ is_interruption' = [is_interruption EXCEPT ![r] = None]
    /\ session_id' = [session_id EXCEPT ![r] = ""]
    /\ user_text' = [user_text EXCEPT ![r] = None]
    /\ assistant_text' = [assistant_text EXCEPT ![r] = None]
    /\ response' = [response EXCEPT ![r] = NoResponse]
    /\ calls' = [calls EXCEPT ![r] = NoCalls]
    /\ ctx_before' = [ctx_before EXCEPT ![r] = NoSnapshot]
    /\ prev_read' = [prev_read EXCEPT ![r] = None]
    /\ embedded_prev' = [embedded_prev EXCEPT ![r] = None]
    /\ UNCHANGED <<session_context, last_generated, last_delivered,
                   last_finished>>

Next ==
    \E r \in Reqs :
        \/ Receive(r)
        \/ ReadEmpty(r)
        \/ ReadAudio(r)
        \/ SttFails(r)
        \/ SttNoText(r)
        \/ \E t \in UserTexts : SttText(r, t)
        \/ FilterRejects(r)
        \/ FilterAccepts(r)
        \/ LlmFails(r)
        \/ \E a \in ReplyTexts : LlmReplies(r, a)
        \/ TtsFails(r)
        \/ \E wav \in WavOutputs : TtsSpeaks(r, wav)
        \/ Respond(r)

Spec == Init /\ [][Next]_vars


(***************************************************************************)
(* The interruption filter on its own: one handler stands at the filter    *)
(* with any transcript and any flag, and the session holds any earlier     *)
(* reply or none.  A reply and a transcript are whatever the services      *)
(* returned, so each of these states is one the handler reaches.           *)
(***************************************************************************)

\* The longest text over Alphabet the filter is run on.
MaxLen == 3

\* The longest run "aa...a" the filter is run on; runs of 7 and 10
\* characters have the length ratio 0.7 exactly.
MaxRun == 10

SeqsUpTo(S, n) == UNION {[1..k -> S] : k \in 0..n}

Runs == {[i \in 1..k |-> "a"] : k \in 1..MaxRun}

FilterTexts == SeqsUpTo(Alphabet, MaxLen) \cup Runs

\* session_context after earlier turns: no entry, or any reply under "s1".
FilterContexts ==
    {EmptyContext} \cup {[k \in {"s1"} |-> p] : p \in FilterTexts}

StoredOrNone(ctx, sid) == IF sid \in DOMAIN ctx THEN ctx[sid] ELSE None

InitFilter ==
    /\ session_context \in FilterContexts
    /\ pc = [r \in Reqs |-> IF r = "A" THEN "filter" ELSE "idle"]
    /\ \E flag \in FlagValues :
         is_interruption = [r \in Reqs |-> IF r = "A" THEN flag ELSE None]
    /\ \E sid \in SessionIds :
         session_id = [r \in Reqs |-> IF r = "A" THEN sid ELSE ""]
    /\ \E t \in FilterTexts \ {EmptyText} :
         user_text = [r \in Reqs |-> IF r = "A" THEN t ELSE None]
    /\ assistant_text = [r \in Reqs |-> None]
    /\ response = [r \in Reqs |-> NoResponse]
    /\ calls = [r \in Reqs |->
                  IF r = "A" THEN [stt |-> 1, llm |-> 0, tts |-> 0]
                  ELSE NoCalls]
    /\ ctx_before = [r \in Reqs |->
                       IF r = "A" THEN session_context ELSE NoSnapshot]
    /\ prev_read = [r \in Reqs |-> None]
    /\ embedded_prev = [r \in Reqs |-> None]
    /\ last_generated =
         [s \in NamedSessions |-> StoredOrNone(session_context, s)]
    /\ last_delivered =
         [s \in NamedSessions |-> StoredOrNone(session_context, s)]
    /\ last_finished =
         [s \in NamedSessions |->
            [text |-> StoredOrNone(session_context, s),
             delivered |-> s \in DOMAIN session_context]]

NextFilter == \E r \in Reqs : FilterRejects(r) \/ FilterAccepts(r)

SpecFilter == InitFilter /\ [][NextFilter]_vars


(***************************************************************************)
(* The vocabulary of the properties, stated without the handler's own      *)
(* operators.                                                              *)
(***************************************************************************)

\* The flag reads "true" whatever its case.
FlagIsTrue(flag) ==
    flag \in {<<"t", "r", "u", "e">>, <<"T", "r", "u", "e">>}

\* The positions of s that hold no whitespace.
Solid(s) == {i \in 1..Len(s) : s[i] # " "}

\* The length of s without its leading and trailing whitespace.
TrimmedLen(s) ==
    IF Solid(s) = {} THEN 0
    ELSE LET first == CHOOSE i \in Solid(s) : \A j \in Solid(s) : i <= j
             last == CHOOSE i \in Solid(s) : \A j \in Solid(s) : j <= i
         IN last - first + 1

\* s lower-cased with all whitespace deleted.
Normalized(s) ==
    SelectSeq([i \in 1..Len(s) |-> IF s[i] = "A" THEN "a" ELSE s[i]],
              LAMBDA ch : ch # " ")

\* a is a substring of b.
Within(a, b) ==
    \E i \in 1..(Len(b) + 1) :
        /\ i + Len(a) - 1 <= Len(b)
        /\ \A j \in 1..Len(a) : b[i + j - 1] = a[j]

\* The handler of r has a transcript and has left the filter.
PastFilter(r) ==
    /\ pc[r] \in {"llm", "tts", "done"}
    /\ user_text[r] \notin {None, EmptyText}

\* r was answered with the empty reply and the empty audio.
Rejected(r) ==
    /\ pc[r] = "done"
    /\ response[r].status = 200
    /\ response[r].assistant_text = EmptyText
    /\ response[r].audio_base64 = EmptyText

(***************************************************************************)
(* C1.  An interruption whose transcript is non-empty and has fewer than   *)
(* three characters after trimming is rejected: the response carries an    *)
(* empty assistant_text and an empty audio_base64, whether session_id is   *)
(* empty, unknown or known and whatever session_context holds.             *)
(***************************************************************************)
C1_ShortInterruptionRejected ==
    \A r \in Reqs :
        (PastFilter(r) /\ FlagIsTrue(is_interruption[r])
            /\ TrimmedLen(user_text[r]) < 3)
        => Rejected(r)

\* A two-character interruption is rejected in a session whose stored reply
\* is unrelated to it.
C1_Witness ==
    /\ Rejected("A")
    /\ FlagIsTrue(is_interruption["A"])
    /\ TrimmedLen(user_text["A"]) = 2
    /\ Len(user_text["A"]) = 3
    /\ session_id["A"] = "s1"
    /\ "s1" \in DOMAIN session_context
    /\ session_context["s1"] = <<"b", "b", "b">>

(***************************************************************************)
(* C3.  An interruption whose trimmed transcript has at least three        *)
(* characters is rejected exactly when session_id is non-empty and has an  *)
(* entry, both normalized strings are non-empty, one is a substring of the *)
(* other, and 10 * min > 7 * max of their lengths; otherwise it goes on to *)
(* reply generation.                                                       *)
(***************************************************************************)
C3_EchoRejectedIff ==
    \A r \in Reqs :
        (PastFilter(r) /\ FlagIsTrue(is_interruption[r])
            /\ TrimmedLen(user_text[r]) >= 3)
        => LET sid == session_id[r]
               known == sid # "" /\ sid \in DOMAIN ctx_before[r]
               user_norm == Normalized(user_text[r])
               prev_norm == IF known THEN Normalized(ctx_before[r][sid])
                            ELSE <<>>
               lo == IF Len(user_norm) < Len(prev_norm)
                     THEN Len(user_norm) ELSE Len(prev_norm)
               hi == IF Len(user_norm) < Len(prev_norm)
                     THEN Len(prev_norm) ELSE Len(user_norm)
               echo == /\ known
                       /\ user_norm # <<>>
                       /\ prev_norm # <<>>
                       /\ Within(user_norm, prev_norm)
                            \/ Within(prev_norm, user_norm)
                       /\ 10 * lo > 7 * hi
           IN /\ echo <=> Rejected(r)
              /\ ~echo => (pc[r] # "done" \/ calls[r].llm = 1)

\* A transcript that differs from the stored reply in case and whitespace
\* only is rejected as its echo.
C3_Witness ==
    /\ Rejected("A")
    /\ FlagIsTrue(is_interruption["A"])
    /\ user_text["A"] = <<"A", " ", "b">>
    /\ session_id["A"] = "s1"
    /\ "s1" \in DOMAIN session_context
    /\ session_context["s1"] = <<"a", "b", " ">>

\* Lengths 7 and 10, one string within the other: the ratio is 0.7 exactly
\* and the turn is accepted.
C3_RatioBoundaryAccepted ==
    /\ pc["A"] = "llm"
    /\ FlagIsTrue(is_interruption["A"])
    /\ Len(user_text["A"]) = 7
    /\ session_id["A"] = "s1"
    /\ "s1" \in DOMAIN session_context
    /\ Len(session_context["s1"]) = 10

(***************************************************************************)
(* C9.  On two non-empty normalized strings the echo rule gives the same   *)
(* result with the strings swapped, and that result is the decision the    *)
(* handler took.                                                           *)
(***************************************************************************)
C9_EchoRuleSymmetric ==
    \A r \in Reqs :
        (PastFilter(r) /\ prev_read[r] # None)
        => LET prev_norm == normalize_text(prev_read[r])
               user_norm == normalize_text(Strip(user_text[r]))
           IN (prev_norm # EmptyText /\ user_norm # EmptyText)
              => /\ EchoRule(prev_norm, user_norm)
                      = EchoRule(user_norm, prev_norm)
                 /\ Rejected(r) <=> EchoRule(user_norm, prev_norm)

\* The stored reply is contained in a longer transcript, ratio 3/4: only
\* the second containment test holds, and the turn is rejected.
C9_Witness ==
    /\ Rejected("A")
    /\ prev_read["A"] = <<"a", "a", "a">>
    /\ user_text["A"] = <<"a", "a", "a", "a">>


(***************************************************************************)
(* C2.  A turn whose flag is not true is accepted whatever its transcript  *)
(* and whatever session_context holds: the echo check reads nothing, reply *)
(* generation is invoked, and the turn is never answered with the empty    *)
(* filtered response.                                                      *)
(***************************************************************************)
C2_NonInterruptionAccepted ==
    \A r \in Reqs :
        (PastFilter(r) /\ ~FlagIsTrue(is_interruption[r]))
        => /\ prev_read[r] = None
           /\ ~Rejected(r)
           /\ pc[r] = "done" => calls[r].llm = 1

\* A non-interruption with a one-character transcript, in a session that
\* holds a reply, gets a full response.
C2_Witness ==
    \E r \in Reqs :
        /\ pc[r] = "done"
        /\ ~FlagIsTrue(is_interruption[r])
        /\ TrimmedLen(user_text[r]) = 1
        /\ session_id[r] = "s1"
        /\ "s1" \in DOMAIN ctx_before[r]
        /\ response[r].status = 200
        /\ response[r].audio_base64 # EmptyText

(***************************************************************************)
(* C4.  The entry of a named session is the reply of the latest successful *)
(* reply generation for that session, and there is an entry exactly when   *)
(* there was one; the echo check of a later interruption in the session    *)
(* reads exactly that reply.                                               *)
(***************************************************************************)
C4_StoreIsLatestGenerated ==
    /\ \A sid \in NamedSessions :
         /\ sid \in DOMAIN session_context <=> last_generated[sid] # None
         /\ sid \in DOMAIN session_context
              => session_context[sid] = last_generated[sid]
    /\ \A r \in Reqs :
         (PastFilter(r) /\ assistant_text[r] = None
             /\ FlagIsTrue(is_interruption[r])
             /\ TrimmedLen(user_text[r]) >= 3 /\ session_id[r] # "")
         => prev_read[r] = last_generated[session_id[r]]

\* Turn 2 of a session is rejected as the echo of the reply turn 1 stored.
C4_Witness ==
    \E r \in Reqs :
        /\ Rejected(r)
        /\ session_id[r] = "s1"
        /\ prev_read[r] = <<"a", "b", "a", "b">>
        /\ last_generated["s1"] = <<"a", "b", "a", "b">>
        /\ last_delivered["s1"] = <<"a", "b", "a", "b">>

\* No handler of session sid is between reply generation and its response.
Settled(sid) == \A r \in Reqs : ~(pc[r] = "tts" /\ session_id[r] = sid)

(***************************************************************************)
(* C5, as claimed.  The entry of a session is the assistant_text of the    *)
(* latest success response returned for it, also after turns that failed   *)
(* at speech synthesis.                                                    *)
(***************************************************************************)
C5_StoreIsLatestDelivered ==
    \A sid \in NamedSessions :
        Settled(sid)
        => /\ sid \in DOMAIN session_context <=> last_delivered[sid] # None
           /\ sid \in DOMAIN session_context
                => session_context[sid] = last_delivered[sid]

(***************************************************************************)
(* C5, amended.  The entry of a session is the reply of the latest turn of *)
(* the session that got past reply generation, whether that reply was      *)
(* returned or speech synthesis failed.  A turn that fails returns no      *)
(* field of a result, and when it failed at speech synthesis its reply is  *)
(* nevertheless what the store holds.                                      *)
(***************************************************************************)
C5_StoreIsLatestFinished ==
    /\ \A sid \in NamedSessions :
         Settled(sid)
         => /\ sid \in DOMAIN session_context
                 <=> last_finished[sid].text # None
            /\ sid \in DOMAIN session_context
                 => session_context[sid] = last_finished[sid].text
    /\ \A r \in Reqs :
         (pc[r] = "done" /\ response[r].status # 200)
         => /\ response[r].user_text = None
            /\ response[r].assistant_text = None
            /\ response[r].audio_base64 = None
            /\ (calls[r].tts = 1 /\ session_id[r] # "")
                 => /\ response[r].detail = "TTS failed"
                    /\ session_context[session_id[r]] = assistant_text[r]
                    /\ ~last_finished[session_id[r]].delivered

\* Speech synthesis failed for a turn whose reply differs from the last
\* reply returned in the session: the store holds the reply never returned.
C5_Witness ==
    \E r \in Reqs :
        /\ pc[r] = "done"
        /\ response[r].detail = "TTS failed"
        /\ session_id[r] = "s1"
        /\ last_delivered["s1"] = <<"a", "b", "a">>
        /\ session_context["s1"] = <<"a", "b", "a", "b">>

(***************************************************************************)
(* C6.  A failed or empty transcription ends the request with a 500 that   *)
(* names the transcription; reply generation and speech synthesis are not  *)
(* invoked.  A failed reply generation ends it with a 500 that names the   *)
(* reply generation; speech synthesis is not invoked.  No service is       *)
(* invoked twice for one request, and in these cases session_context is    *)
(* what it was when the request's pipeline began.                          *)
(***************************************************************************)
C6_FailureAbortsPipeline ==
    \A r \in Reqs :
        /\ calls[r].stt <= 1 /\ calls[r].llm <= 1 /\ calls[r].tts <= 1
        /\ pc[r] \in {"filter", "llm", "tts"}
             => user_text[r] \notin {None, EmptyText}
        /\ (pc[r] = "done" /\ calls[r].stt = 1
               /\ user_text[r] \in {None, EmptyText})
             => /\ response[r].status = 500
                /\ response[r].detail \in {"STT failed", "STT result has no text"}
                /\ (user_text[r] = EmptyText
                      => response[r].detail = "STT result has no text")
                /\ calls[r].llm = 0 /\ calls[r].tts = 0
                /\ session_context = ctx_before[r]
        /\ (pc[r] = "done" /\ calls[r].llm = 1 /\ assistant_text[r] = None)
             => /\ response[r].status = 500
                /\ response[r].detail = "LLM failed"
                /\ calls[r].tts = 0
                /\ session_context = ctx_before[r]
        /\ pc[r] = "done"
             => /\ response[r].detail
                     \in {"STT failed", "STT result has no text"}
                      => calls[r] = [stt |-> 1, llm |-> 0, tts |-> 0]
                /\ response[r].detail = "LLM failed"
                      => calls[r] = [stt |-> 1, llm |-> 1, tts |-> 0]

\* Reply generation fails for an interruption in a session that holds a
\* reply.
C6_Witness ==
    \E r \in Reqs :
        /\ pc[r] = "done"
        /\ response[r].detail = "LLM failed"
        /\ session_id[r] = "s1"
        /\ embedded_prev[r] = <<"a", "b", "a">>
        /\ session_context["s1"] = <<"a", "b", "a">>

(***************************************************************************)
(* C7.  A rejected turn, too short or an echo, ends as a success response  *)
(* whose user_text is the transcript as transcribed, untrimmed, with empty *)
(* assistant_text and audio_base64; reply generation and speech synthesis  *)
(* are not invoked, and session_context is unchanged.                      *)
(***************************************************************************)
C7_RejectedShortCircuits ==
    \A r \in Reqs :
        (PastFilter(r)
            /\ \/ Rejected(r)
               \/ InterruptFilter(user_text[r], is_interruption[r],
                                  session_id[r], ctx_before[r]) # "accept")
        => /\ pc[r] = "done"
           /\ response[r] = [status |-> 200, detail |-> "",
                             user_text |-> user_text[r],
                             assistant_text |-> EmptyText,
                             audio_base64 |-> EmptyText]
           /\ calls[r] = [stt |-> 1, llm |-> 0, tts |-> 0]
           /\ assistant_text[r] = None
           /\ session_context = ctx_before[r]

\* An echo is rejected and the reply it echoed is still the stored one.
C7_Witness ==
    \E r \in Reqs :
        /\ Rejected(r)
        /\ user_text[r] = <<"A", " ", "b", "a">>
        /\ session_id[r] = "s1"
        /\ prev_read[r] = <<"a", "b", "a">>
        /\ session_context["s1"] = <<"a", "b", "a">>

(***************************************************************************)
(* C8.  The empty string is never a key of session_context.  A turn with   *)
(* an empty session_id reads no previous reply, for the echo check or for  *)
(* the prompt, can be rejected only as too short, and leaves               *)
(* session_context as it was.  A turn whose non-empty session_id has no    *)
(* entry reads no previous reply either.                                   *)
(***************************************************************************)
C8_EmptySessionUntracked ==
    /\ "" \notin DOMAIN session_context
    /\ \A r \in Reqs :
         (pc[r] \in {"filter", "llm", "tts", "done"} /\ calls[r].stt = 1
             /\ (session_id[r] = ""
                   \/ session_id[r] \notin DOMAIN ctx_before[r]))
         => /\ prev_read[r] = None
            /\ embedded_prev[r] = None
            /\ Rejected(r) => TrimmedLen(user_text[r]) < 3
            /\ session_id[r] = "" => session_context = ctx_before[r]

\* An interruption without session_id repeats the reply stored for "s1"
\* and is answered in full.
C8_Witness ==
    \E r \in Reqs :
        /\ pc[r] = "done"
        /\ session_id[r] = ""
        /\ FlagIsTrue(is_interruption[r])
        /\ user_text[r] = <<"a", "b", "a", "b">>
        /\ "s1" \in DOMAIN session_context
        /\ session_context["s1"] = <<"a", "b", "a", "b">>
        /\ response[r].status = 200
        /\ response[r].assistant_text = <<"a", "b", "a">>

\* r has read the stored reply for its echo check and not written its own.
BetweenReadAndWrite(r) == pc[r] = "llm" /\ prev_read[r] # None

(***************************************************************************)
(* C10, as claimed.  The steps of two requests of one session interleave:  *)
(* while request A is between its echo-check read and its write, request   *)
(* B, whose upload has arrived, can go on to its own read and write.       *)
(***************************************************************************)
C10_OtherRequestCanStep ==
    \A a \in Reqs, b \in Reqs :
        (a # b /\ BetweenReadAndWrite(a) /\ pc[b] = "await_read"
            /\ session_id[b] = session_id[a])
        => ENABLED ReadAudio(b)

(***************************************************************************)
(* C10, amended.  Two requests of one session overlap only while they      *)
(* await their uploads.  From its transcription call to its response a     *)
(* handler runs alone: nothing reads or writes session_context between its *)
(* echo-check read and its write, the text its echo check compared against *)
(* is the entry as it stands, and after its write the entry is its own     *)
(* reply, so the last handler to run wins.  Every text read is a whole     *)
(* reply some request wrote.                                               *)
(***************************************************************************)
C10_HandlersRunAlone ==
    /\ \A a \in Reqs, b \in Reqs :
         (a # b /\ pc[a] \in {"stt", "filter", "llm", "tts"})
         => pc[b] \in {"idle", "await_read"}
    /\ \A r \in Reqs :
         /\ pc[r] \in {"stt", "filter", "llm"}
              => session_context = ctx_before[r]
         /\ BetweenReadAndWrite(r)
              => prev_read[r] = session_context[session_id[r]]
         /\ (pc[r] = "tts" /\ session_id[r] # "")
              => session_context[session_id[r]] = assistant_text[r]
         /\ prev_read[r] # None => prev_read[r] \in ReplyTexts

\* Both requests of session "s1" are in flight: one is between its read and
\* its write, the other still awaits its upload.
C10_Witness ==
    \E a \in Reqs, b \in Reqs :
        /\ a # b
        /\ BetweenReadAndWrite(a)
        /\ pc[b] = "await_read"
        /\ session_id[a] = "s1"
        /\ session_id[b] = "s1"

=============================================================================
